---- MODULE Spec2Model ----
(***************************************************************************)
(* Model of the Phoenix Channels client orchestrator (src/src/client.rs).  *)
(*                                                                         *)
(* Three threads work on one connection:                                   *)
(*   "app"  the application's calling context (Client::send, Client::join) *)
(*   "hb"   the thread spawned by Client::keepalive                        *)
(*   the delivery thread spawned by Client::process_messages               *)
(* The Sender sits behind Arc<Mutex<Sender>> (sender_ref).  The Sender and *)
(* the Receiver themselves (sender.rs, receiver.rs) are not part of the    *)
(* available source; their steps are taken from the design document       *)
(* (sections 4.1, 4.3 and 4.4).                                            *)
(***************************************************************************)
EXTENDS Integers, Sequences, FiniteSets, TLC

\* Bounds of the model.
MaxCalls == 4      \* Sender calls started (send + join + heartbeat ticks)
MaxFrames == 3     \* inbound frames that arrive on the connection

Threads == {"app", "hb"}
Topics == {"room:a", "room:b"}
Payloads == {"hello"}
NoField == "<missing>"

VARIABLES
    pc,           \* position of "app" and "hb"
    cur,          \* index in calls of the call a thread is executing (0: none)
    calls,        \* history of the Sender calls started, in call order
    holders,      \* threads holding a MutexGuard of sender_ref
    poisoned,     \* the poison flag of sender_ref
    ref_counter,  \* the Sender's reference counter
    wire,         \* chunks written to the connection's write half, in order
    connOpen,     \* the underlying connection is open
    inbound,      \* frames that arrived on the read half and were not pulled yet
    arrived,      \* number of frames that have arrived
    yielded,      \* history of the items Receiver::next has yielded
    dlvPc,        \* position of the delivery thread
    dlvItem,      \* the item the delivery thread holds (<<>>: none)
    dlvResult,    \* result of the delivery thread's last mpsc send
    attempts,     \* number of mpsc sends the delivery thread has attempted
    chan,         \* items queued in the mpsc channel
    rxOpen,       \* the application still holds the mpsc::Receiver
    consumed,     \* history of the items the application has read
    ctor,         \* Client::new: its position, its locals and its result
    joiner        \* Client::join_threads: its position and its result

senderVars == <<pc, cur, calls, holders, poisoned, ref_counter, wire>>
deliveryVars == <<inbound, arrived, yielded, dlvPc, dlvItem, dlvResult, attempts,
                  chan, rxOpen, consumed>>
lifeVars == <<ctor, joiner>>
vars == <<pc, cur, calls, holders, poisoned, ref_counter, wire, connOpen,
          inbound, arrived, yielded, dlvPc, dlvItem, dlvResult, attempts,
          chan, rxOpen, consumed, ctor, joiner>>

----------------------------------------------------------------------------
\* Envelope codec and Sender (design document, sections 4.1, 4.3 and 6).

\* The envelope a Sender call builds from its arguments and its reference.
Envelope(c) ==
    CASE c.op = "send"      -> [topic |-> c.topic, event |-> "custom",
                                payload |-> c.payload, ref |-> c.ref]
      [] c.op = "join"      -> [topic |-> c.topic, event |-> "phx_join",
                                payload |-> "{}", ref |-> c.ref]
      [] c.op = "heartbeat" -> [topic |-> "phoenix", event |-> "heartbeat",
                                payload |-> "{}", ref |-> <<>>]

\* encode: the wire frame of an envelope, written to the socket in two chunks.
EncodeHead(e, id) == [part |-> "head", call |-> id, topic |-> e.topic, event |-> e.event]
EncodeTail(e, id) == [part |-> "tail", call |-> id, payload |-> e.payload, ref |-> e.ref]

\* decode of two adjacent chunks of the write half, as the peer reads them.
DecodeWire(h, t) ==
    [topic |-> h.topic, event |-> h.event, payload |-> t.payload, ref |-> t.ref]

\* decode of an inbound frame: frames missing topic or event are a MessageError.
Decode(f) ==
    IF f.topic = NoField \/ f.event = NoField
    THEN [kind |-> "Err", seq |-> f.seq, topic |-> NoField, event |-> NoField]
    ELSE [kind |-> "Ok", seq |-> f.seq, topic |-> f.topic, event |-> f.event]

InboundShapes ==
    { [topic |-> "room:a", event |-> "phx_reply"],
      [topic |-> NoField,  event |-> "phx_reply"],
      [topic |-> "room:a", event |-> NoField] }

----------------------------------------------------------------------------
\* Client::new has returned Ok: the connection is up, the channel exists and
\* both threads are spawned.
Constructed == [pc |-> "returned", result |-> <<"Ok">>, connected |-> TRUE]
NotJoining == [pc |-> "none", result |-> <<>>]

Init ==
    /\ ctor = Constructed
    /\ joiner = NotJoining
    /\ pc = [t \in Threads |-> IF t = "app" THEN "idle" ELSE "sleep"]
    /\ cur = [t \in Threads |-> 0]
    /\ calls = <<>>
    /\ holders = {}
    /\ poisoned = FALSE
    /\ ref_counter = 0
    /\ wire = <<>>
    /\ connOpen = TRUE
    /\ inbound = <<>>
    /\ arrived = 0
    /\ yielded = <<>>
    /\ dlvPc = "next"
    /\ dlvItem = <<>>
    /\ dlvResult = "none"
    /\ attempts = 0
    /\ chan = <<>>
    /\ rxOpen = TRUE
    /\ consumed = <<>>

NewCall(t, o, topic, payload) ==
    [by |-> t, op |-> o, topic |-> topic, payload |-> payload,
     ref |-> <<>>, wrote |-> "none", ret |-> <<"pending">>]

StartCall(t, o, topic, payload) ==
    /\ Len(calls) < MaxCalls
    /\ calls' = Append(calls, NewCall(t, o, topic, payload))
    /\ cur' = [cur EXCEPT ![t] = Len(calls) + 1]
    /\ pc' = [pc EXCEPT ![t] = "lock"]

\* Client::send is entered by the application.
send(topic, payload) ==
    /\ pc["app"] = "idle"
    /\ StartCall("app", "send", topic, payload)
    /\ UNCHANGED <<holders, poisoned, ref_counter, wire, connOpen>>
    /\ UNCHANGED deliveryVars
    /\ UNCHANGED lifeVars

\* Client::join is entered by the application.
join(channel) ==
    /\ pc["app"] = "idle"
    /\ StartCall("app", "join", channel, "{}")
    /\ UNCHANGED <<holders, poisoned, ref_counter, wire, connOpen>>
    /\ UNCHANGED deliveryVars
    /\ UNCHANGED lifeVars

\* A keepalive loop that calls sender.send("phoenix", ...) instead of
\* sender.heartbeat().
keepalive_tickViaSend ==
    /\ pc["hb"] = "sleep"
    /\ StartCall("hb", "send", "phoenix", "{}")
    /\ UNCHANGED <<holders, poisoned, ref_counter, wire, connOpen>>
    /\ UNCHANGED deliveryVars
    /\ UNCHANGED lifeVars

\* The keepalive loop's sleep of one period ends.
keepalive_tick ==
    /\ pc["hb"] = "sleep"
    /\ StartCall("hb", "heartbeat", "phoenix", "{}")
    /\ UNCHANGED <<holders, poisoned, ref_counter, wire, connOpen>>
    /\ UNCHANGED deliveryVars
    /\ UNCHANGED lifeVars

\* std::sync::Mutex::lock returns only when no other guard of sender_ref exists.
MutexFreeBroken == TRUE
MutexFree == holders = {}

\* What a caller makes of a poisoned lock: Client::join maps it to
\* ClientError::Thread, Client::send and the keepalive loop unwrap() it.
PoisonedOutcomeUnwrap(o) == <<"panic">>
PoisonedOutcome(o) == IF o = "join" THEN <<"ClientError::Thread">> ELSE <<"panic">>

\* What a caller makes of the result of its Sender call c (c.wrote: whether
\* the write succeeded, c.ref: the reference the Sender assigned).
\* Client::send drops the result of sender.send.
SendOutcomeUnwrap(c) == IF c.wrote = "failed" THEN <<"panic">> ELSE <<"unit">>
SendOutcome(c) == <<"unit">>

\* The keepalive loop drops the result of sender.heartbeat.
HeartbeatOutcome(c) == <<"unit">>

\* Client::join: Ok(sender.join(channel)?), the JoinError converted by From.
JoinOutcomeIgnoresError(c) == <<"Ok", c.ref[1]>>
JoinOutcomePlaceholder(c) ==
    IF c.wrote = "failed" THEN <<"ClientError::Join">> ELSE <<"Ok", 1>>
JoinOutcome(c) ==
    IF c.wrote = "failed" THEN <<"ClientError::Join">> ELSE <<"Ok", c.ref[1]>>

Outcome(c) ==
    CASE c.op = "send"      -> SendOutcome(c)
      [] c.op = "join"      -> JoinOutcome(c)
      [] c.op = "heartbeat" -> HeartbeatOutcome(c)

Rest(t) == IF t = "app" THEN "idle" ELSE "sleep"

\* A lock() whose caller recovers the guard from the PoisonError and goes on.
lockIgnoringPoison(t) ==
    /\ pc[t] = "lock"
    /\ MutexFree
    /\ holders' = holders \cup {t}
    /\ pc' = [pc EXCEPT ![t] = IF calls[cur[t]].op = "heartbeat"
                               THEN "head" ELSE "stamp"]
    /\ UNCHANGED <<calls, cur, poisoned, ref_counter, wire, connOpen>>
    /\ UNCHANGED deliveryVars
    /\ UNCHANGED lifeVars

\* sender_ref.lock() returns to thread t.
lock(t) ==
    /\ pc[t] = "lock"
    /\ MutexFree
    /\ IF poisoned
       THEN LET out == PoisonedOutcome(calls[cur[t]].op) IN
            /\ calls' = [calls EXCEPT ![cur[t]].ret = out]
            /\ pc' = [pc EXCEPT ![t] = IF out = <<"panic">> THEN "panicked" ELSE Rest(t)]
            /\ cur' = [cur EXCEPT ![t] = 0]
            /\ UNCHANGED holders
       ELSE /\ holders' = holders \cup {t}
            /\ pc' = [pc EXCEPT ![t] = IF calls[cur[t]].op = "heartbeat"
                                       THEN "head" ELSE "stamp"]
            /\ UNCHANGED <<calls, cur>>
    /\ UNCHANGED <<poisoned, ref_counter, wire, connOpen>>
    /\ UNCHANGED deliveryVars
    /\ UNCHANGED lifeVars

\* Sender::send / Sender::join take the next value of the reference counter.
SenderStamp(t) ==
    /\ pc[t] = "stamp"
    /\ ref_counter' = ref_counter + 1
    /\ calls' = [calls EXCEPT ![cur[t]].ref = <<ref_counter + 1>>]
    /\ pc' = [pc EXCEPT ![t] = "head"]
    /\ UNCHANGED <<cur, holders, poisoned, wire, connOpen>>
    /\ UNCHANGED deliveryVars
    /\ UNCHANGED lifeVars

\* The Sender writes the first chunk of the encoded envelope.
SenderWriteHead(t) ==
    /\ pc[t] = "head"
    /\ IF connOpen
       THEN /\ wire' = Append(wire, EncodeHead(Envelope(calls[cur[t]]), cur[t]))
            /\ pc' = [pc EXCEPT ![t] = "tail"]
            /\ UNCHANGED calls
       ELSE /\ calls' = [calls EXCEPT ![cur[t]].wrote = "failed"]
            /\ pc' = [pc EXCEPT ![t] = "ret"]
            /\ UNCHANGED wire
    /\ UNCHANGED <<cur, holders, poisoned, ref_counter, connOpen>>
    /\ UNCHANGED deliveryVars
    /\ UNCHANGED lifeVars

\* The Sender writes the rest of the encoded envelope and returns.
SenderWriteTail(t) ==
    /\ pc[t] = "tail"
    /\ IF connOpen
       THEN /\ wire' = Append(wire, EncodeTail(Envelope(calls[cur[t]]), cur[t]))
            /\ calls' = [calls EXCEPT ![cur[t]].wrote = "ok"]
       ELSE /\ calls' = [calls EXCEPT ![cur[t]].wrote = "failed"]
            /\ UNCHANGED wire
    /\ pc' = [pc EXCEPT ![t] = "ret"]
    /\ UNCHANGED <<cur, holders, poisoned, ref_counter, connOpen>>
    /\ UNCHANGED deliveryVars
    /\ UNCHANGED lifeVars

\* A holder crashes inside its Sender call: the guard is dropped while
\* unwinding, which poisons the mutex.
SenderPanic(t) ==
    /\ pc[t] \in {"stamp", "head", "tail"}
    /\ calls' = [calls EXCEPT ![cur[t]].ret = <<"crash">>]
    /\ pc' = [pc EXCEPT ![t] = "panicked"]
    /\ cur' = [cur EXCEPT ![t] = 0]
    /\ holders' = holders \ {t}
    /\ poisoned' = TRUE
    /\ UNCHANGED <<ref_counter, wire, connOpen>>
    /\ UNCHANGED deliveryVars
    /\ UNCHANGED lifeVars

\* A caller that keeps its guard alive across the return (a guard taken
\* outside the keepalive loop, say).
unlockKeepsGuard(t) ==
    /\ pc[t] = "ret"
    /\ calls' = [calls EXCEPT ![cur[t]].ret = Outcome(calls[cur[t]])]
    /\ pc' = [pc EXCEPT ![t] = Rest(t)]
    /\ cur' = [cur EXCEPT ![t] = 0]
    /\ UNCHANGED <<holders, poisoned, ref_counter, wire, connOpen>>
    /\ UNCHANGED deliveryVars
    /\ UNCHANGED lifeVars

\* The Sender call has returned: the caller evaluates the result, the guard
\* goes out of scope and the call returns (the keepalive loop sleeps again).
unlock(t) ==
    /\ pc[t] = "ret"
    /\ LET out == Outcome(calls[cur[t]]) IN
        /\ calls' = [calls EXCEPT ![cur[t]].ret = out]
        /\ pc' = [pc EXCEPT ![t] = IF out = <<"panic">> THEN "panicked" ELSE Rest(t)]
        /\ poisoned' = (poisoned \/ out = <<"panic">>)
    /\ cur' = [cur EXCEPT ![t] = 0]
    /\ holders' = holders \ {t}
    /\ UNCHANGED <<ref_counter, wire, connOpen>>
    /\ UNCHANGED deliveryVars
    /\ UNCHANGED lifeVars

\* The underlying connection closes (peer, network or the application).
CloseConnection ==
    /\ connOpen
    /\ connOpen' = FALSE
    /\ UNCHANGED senderVars
    /\ UNCHANGED deliveryVars
    /\ UNCHANGED lifeVars

----------------------------------------------------------------------------
\* Inbound half and the delivery thread.

\* A frame arrives on the read half.
FrameArrives(shape) ==
    /\ connOpen
    /\ arrived < MaxFrames
    /\ arrived' = arrived + 1
    /\ inbound' = Append(inbound, [seq |-> arrived + 1, topic |-> shape.topic,
                                   event |-> shape.event])
    /\ UNCHANGED <<yielded, dlvPc, dlvItem, dlvResult, attempts, chan, rxOpen, consumed>>
    /\ UNCHANGED senderVars
    /\ UNCHANGED connOpen
    /\ UNCHANGED lifeVars

\* Receiver::next: blocks until a frame is there or the connection is closed.
ReceiverReady == inbound # <<>> \/ ~connOpen
ReceiverNext == IF inbound # <<>> THEN <<Decode(Head(inbound))>> ELSE <<>>

\* MessageIterator::next, called by the for loop of process_messages.
next ==
    /\ dlvPc = "next"
    /\ ReceiverReady
    /\ LET item == ReceiverNext IN
        IF item = <<>>
        THEN /\ dlvPc' = "done"
             /\ UNCHANGED <<inbound, yielded, dlvItem>>
        ELSE /\ inbound' = Tail(inbound)
             /\ yielded' = Append(yielded, item[1])
             /\ dlvItem' = item
             /\ dlvPc' = "send"
    /\ UNCHANGED <<arrived, dlvResult, attempts, chan, rxOpen, consumed>>
    /\ UNCHANGED senderVars
    /\ UNCHANGED connOpen
    /\ UNCHANGED lifeVars

\* What the loop body hands to sender.send for a pulled item: the item itself.
RepublishOkOnly(item) == IF item.kind = "Ok" THEN <<item>> ELSE <<>>
Republish(item) == <<item>>

\* let result = sender.send(message): fails iff the mpsc::Receiver was dropped.
publish ==
    /\ dlvPc = "send"
    /\ attempts' = attempts + 1
    /\ IF rxOpen
       THEN /\ chan' = chan \o Republish(dlvItem[1])
            /\ dlvResult' = "Ok"
       ELSE /\ dlvResult' = "Err"
            /\ UNCHANGED chan
    /\ dlvItem' = <<>>
    /\ dlvPc' = "check"
    /\ UNCHANGED <<inbound, arrived, yielded, rxOpen, consumed>>
    /\ UNCHANGED senderVars
    /\ UNCHANGED connOpen
    /\ UNCHANGED lifeVars

\* if result.is_err() { break; }
BreakOnAnyResult(r) == TRUE
NeverBreak(r) == FALSE
ShouldBreak(r) == r = "Err"

check ==
    /\ dlvPc = "check"
    /\ dlvPc' = IF ShouldBreak(dlvResult) THEN "done" ELSE "next"
    /\ UNCHANGED <<inbound, arrived, yielded, dlvItem, dlvResult, attempts, chan,
                   rxOpen, consumed>>
    /\ UNCHANGED senderVars
    /\ UNCHANGED connOpen
    /\ UNCHANGED lifeVars

\* The application reads the next item from the channel.
recv ==
    /\ rxOpen
    /\ chan # <<>>
    /\ consumed' = Append(consumed, Head(chan))
    /\ chan' = Tail(chan)
    /\ UNCHANGED <<inbound, arrived, yielded, dlvPc, dlvItem, dlvResult, attempts, rxOpen>>
    /\ UNCHANGED senderVars
    /\ UNCHANGED connOpen
    /\ UNCHANGED lifeVars

\* The application drops the mpsc::Receiver; what is queued is dropped with it.
drop_rx ==
    /\ rxOpen
    /\ rxOpen' = FALSE
    /\ chan' = <<>>
    /\ UNCHANGED <<inbound, arrived, yielded, dlvPc, dlvItem, dlvResult, attempts, consumed>>
    /\ UNCHANGED senderVars
    /\ UNCHANGED connOpen
    /\ UNCHANGED lifeVars

----------------------------------------------------------------------------
\* Connection establishment and Client::new.  Strings are sequences of
\* characters, so that format! is concatenation.

MaxParams == 2     \* auth parameters handed to connect

PHOENIX_VERSION == <<"2", ".", "0", ".", "0">>

Urls == { <<"w", "s", "s", ":", "/", "/", "h", "o", "s", "t">>,
          <<"w", "s", ":", "/", "/", "h">> }
Keys == { <<"t", "o", "k", "e", "n">>, <<"a">> }
Values == { <<"a", "b", "c">>, <<"x", " ", "&", "y">> }
Pairs == { <<k, v>> : k \in Keys, v \in Values }
ParamLists == UNION { [1..n -> Pairs] : n \in 0..MaxParams }

\* format!("&{}={}", k, v)
FormatParamEncoded(k, v) ==
    LET Enc(str) == [i \in 1..Len(str) |-> IF str[i] = " " THEN "+" ELSE str[i]]
    IN  <<"&">> \o Enc(k) \o <<"=">> \o Enc(v)
FormatParam(k, v) == <<"&">> \o k \o <<"=">> \o v

\* format!("{}/websocket?vsn={}{}", url, PHOENIX_VERSION, params_uri)
FormatAddr(url, params_uri) ==
    url \o <<"/", "w", "e", "b", "s", "o", "c", "k", "e", "t", "?", "v", "s", "n", "=">>
        \o PHOENIX_VERSION \o params_uri

\* The state before Client::new is called with (url, params): no connection,
\* no channel, no thread.
InitNew ==
    /\ \E url \in Urls, params \in ParamLists :
         ctor = [pc |-> "params", url |-> url, input |-> params, params |-> params,
                 params_uri |-> <<>>]
    /\ joiner = NotJoining
    /\ pc = [t \in Threads |-> IF t = "app" THEN "new" ELSE "unspawned"]
    /\ cur = [t \in Threads |-> 0]
    /\ calls = <<>>
    /\ holders = {}
    /\ poisoned = FALSE
    /\ ref_counter = 0
    /\ wire = <<>>
    /\ connOpen = FALSE
    /\ inbound = <<>>
    /\ arrived = 0
    /\ yielded = <<>>
    /\ dlvPc = "unspawned"
    /\ dlvItem = <<>>
    /\ dlvResult = "none"
    /\ attempts = 0
    /\ chan = <<>>
    /\ rxOpen = FALSE
    /\ consumed = <<>>

\* connect: one iteration of the loop over params.
connect_param ==
    /\ ctor.pc = "params"
    /\ ctor.params # <<>>
    /\ LET kv == Head(ctor.params) IN
        ctor' = [ctor EXCEPT
                   !.params_uri = ctor.params_uri \o FormatParam(kv[1], kv[2]),
                   !.params = Tail(ctor.params)]
    /\ UNCHANGED <<joiner, connOpen>>
    /\ UNCHANGED senderVars
    /\ UNCHANGED deliveryVars

\* connect: the loop is over, the address is built.
connect_addr ==
    /\ ctor.pc = "params"
    /\ ctor.params = <<>>
    /\ ctor' = [pc |-> "socket", url |-> ctor.url, input |-> ctor.input,
                addr |-> FormatAddr(ctor.url, ctor.params_uri)]
    /\ UNCHANGED <<joiner, connOpen>>
    /\ UNCHANGED senderVars
    /\ UNCHANGED deliveryVars

\* let (sender, receiver) = connect(url, params, ...)?: where Client::new
\* goes on after connect returned.
AfterConnectIgnoresError(ok) == "channel"
AfterConnect(ok) == IF ok THEN "channel" ELSE "returned"

\* ClientBuilder::new(&addr)?, connect_insecure()? and split()? succeed or
\* one of them fails with a ConnectError.
connect_socket(ok) ==
    /\ ctor.pc = "socket"
    /\ connOpen' = ok
    /\ ctor' = IF AfterConnect(ok) = "returned"
               THEN [pc |-> "returned", result |-> <<"ClientError::Connect">>,
                     connected |-> ok]
               ELSE [pc |-> "channel"]
    /\ UNCHANGED joiner
    /\ UNCHANGED senderVars
    /\ UNCHANGED deliveryVars

\* let (tx, rx) = mpsc::channel();
new_channel ==
    /\ ctor.pc = "channel"
    /\ rxOpen' = TRUE
    /\ ctor' = [pc |-> "keepalive"]
    /\ UNCHANGED <<inbound, arrived, yielded, dlvPc, dlvItem, dlvResult, attempts,
                   chan, consumed>>
    /\ UNCHANGED <<joiner, connOpen>>
    /\ UNCHANGED senderVars

\* sender_ref = Arc::new(Mutex::new(sender)); heartbeat = Client::keepalive(..)
spawn_keepalive ==
    /\ ctor.pc = "keepalive"
    /\ pc' = [pc EXCEPT !["hb"] = "sleep"]
    /\ ctor' = [pc |-> "process_messages"]
    /\ UNCHANGED <<cur, calls, holders, poisoned, ref_counter, wire>>
    /\ UNCHANGED <<joiner, connOpen>>
    /\ UNCHANGED deliveryVars

\* message_processor = Client::process_messages(receiver, tx)
spawn_process_messages ==
    /\ ctor.pc = "process_messages"
    /\ dlvPc' = "next"
    /\ ctor' = [pc |-> "return"]
    /\ UNCHANGED <<inbound, arrived, yielded, dlvItem, dlvResult, attempts, chan,
                   rxOpen, consumed>>
    /\ UNCHANGED <<joiner, connOpen>>
    /\ UNCHANGED senderVars

\* return Ok((client, rx));
new_return ==
    /\ ctor.pc = "return"
    /\ ctor' = [pc |-> "returned", result |-> <<"Ok">>, connected |-> connOpen]
    /\ pc' = [pc EXCEPT !["app"] = "idle"]
    /\ UNCHANGED <<cur, calls, holders, poisoned, ref_counter, wire>>
    /\ UNCHANGED <<joiner, connOpen>>
    /\ UNCHANGED deliveryVars

NewNext ==
    \/ connect_param
    \/ connect_addr
    \/ \E ok \in BOOLEAN : connect_socket(ok)
    \/ new_channel
    \/ spawn_keepalive
    \/ spawn_process_messages
    \/ new_return

NewSpec == InitNew /\ [][NewNext]_vars

----------------------------------------------------------------------------
ThreadStep(t) ==
    \/ lock(t)
    \/ SenderStamp(t)
    \/ SenderWriteHead(t)
    \/ SenderWriteTail(t)
    \/ unlock(t)

\* The outbound side: the application's calls, the keepalive thread, the
\* Sender behind sender_ref, and the faults of its environment.
SenderNext ==
    \/ \E topic \in Topics, payload \in Payloads : send(topic, payload)
    \/ \E channel \in Topics : join(channel)
    \/ keepalive_tick
    \/ \E t \in Threads : ThreadStep(t)
    \/ \E t \in Threads : SenderPanic(t)
    \/ CloseConnection

DeliveryStep == next \/ publish \/ check

\* The inbound side: the Receiver, the delivery thread, the mpsc channel and
\* its consumer.
DeliveryNext ==
    \/ \E shape \in InboundShapes : FrameArrives(shape)
    \/ DeliveryStep
    \/ recv
    \/ drop_rx
    \/ CloseConnection

\* The two sides share no state but the connection: each is checked on its own.
SenderSpec == Init /\ [][SenderNext]_vars
DeliverySpec == Init /\ [][DeliveryNext]_vars

\* The operating system schedules every thread that can take a step; the
\* environment (frames arriving, the connection closing, the application's
\* calls) is under no obligation.
DeliveryFairSpec == DeliverySpec /\ WF_vars(DeliveryStep)

----------------------------------------------------------------------------
\* Client::join_threads.  joiner.pc names the handle whose join() the
\* application is blocked in.

\* The thread behind a handle has ended: the keepalive closure is a loop
\* without break or return, so it ends only by unwinding; the delivery
\* closure ends when its for loop does.
Terminated(h) ==
    IF h = "heartbeat_handle" THEN pc["hb"] = "panicked" ELSE dlvPc = "done"

\* JoinHandle::join() gives Err iff the thread panicked.
JoinResult(h) ==
    IF h = "heartbeat_handle" /\ pc["hb"] = "panicked" THEN "Err" ELSE "Ok"

\* The application calls join_threads(self).
join_threads ==
    /\ pc["app"] = "idle"
    /\ joiner.pc = "none"
    /\ joiner' = [pc |-> "heartbeat_handle", result |-> <<>>]
    /\ pc' = [pc EXCEPT !["app"] = "joining"]
    /\ UNCHANGED <<cur, calls, holders, poisoned, ref_counter, wire, connOpen>>
    /\ UNCHANGED deliveryVars
    /\ UNCHANGED ctor

\* self.heartbeat_handle.join()?; self.message_processor_handle.join()?;
\* return Ok(()): the join() the application is blocked in returns, and the
\* question mark returns an Err from join_threads at once.
join_handle ==
    /\ joiner.pc \in {"heartbeat_handle", "message_processor_handle"}
    /\ Terminated(joiner.pc)
    /\ LET r == JoinResult(joiner.pc)
           after == IF r = "Err"
                    THEN [pc |-> "returned", result |-> <<"Err">>]
                    ELSE IF joiner.pc = "heartbeat_handle"
                         THEN [pc |-> "message_processor_handle", result |-> <<>>]
                         ELSE [pc |-> "returned", result |-> <<"Ok">>]
       IN /\ joiner' = after
          /\ pc' = [pc EXCEPT !["app"] = IF after.pc = "returned"
                                         THEN "joined" ELSE @]
    /\ UNCHANGED <<cur, calls, holders, poisoned, ref_counter, wire, connOpen>>
    /\ UNCHANGED deliveryVars
    /\ UNCHANGED ctor

\* The keepalive thread inside its tick: heartbeat() takes no reference.
KeepaliveStep ==
    \/ lock("hb")
    \/ SenderWriteHead("hb")
    \/ SenderWriteTail("hb")
    \/ unlock("hb")

\* The life of the two background threads and the application's
\* join_threads: the application makes no other call here.
LifeNext ==
    \/ keepalive_tick
    \/ KeepaliveStep
    \/ SenderPanic("hb")
    \/ CloseConnection
    \/ \E shape \in InboundShapes : FrameArrives(shape)
    \/ DeliveryStep
    \/ drop_rx
    \/ join_threads
    \/ join_handle

LifeSpec == Init /\ [][LifeNext]_vars

----------------------------------------------------------------------------
\* Runs without end.  calls and wire are records of what has happened, not
\* state of the program; the keepalive loop never ends, so the record of its
\* finished ticks is dropped while the thread sleeps.  No state of the
\* program changes; the application's calls stay on record.

Kept == {i \in 1..Len(calls) : calls[i].by # "hb"}
NewIndex(i) == Cardinality({j \in Kept : j <= i})

ForgetHeartbeats ==
    /\ pc["hb"] = "sleep"
    /\ Kept # 1..Len(calls)
    /\ calls' = SelectSeq(calls, LAMBDA c : c.by # "hb")
    /\ cur' = [t \in Threads |-> NewIndex(cur[t])]
    /\ LET w == SelectSeq(wire, LAMBDA chunk : chunk.call \in Kept)
       IN wire' = [k \in 1..Len(w) |-> [w[k] EXCEPT !.call = NewIndex(@)]]
    /\ UNCHANGED <<pc, holders, poisoned, ref_counter, connOpen>>
    /\ UNCHANGED deliveryVars
    /\ UNCHANGED lifeVars

\* The outbound side when no holder crashes: every write returns, with
\* success or with failure.  Whether a call returns does not depend on its
\* topic: one topic is enough here.
SenderLiveNext ==
    \/ \E payload \in Payloads : send("room:a", payload)
    \/ join("room:a")
    \/ keepalive_tick
    \/ \E t \in Threads : ThreadStep(t)
    \/ CloseConnection
    \/ ForgetHeartbeats

SenderLiveSpec == Init /\ [][SenderLiveNext]_vars

\* Every thread that can take a step is scheduled, and lock() is weakly
\* fair: a lock() that could return from some point on without interruption
\* does return.
SenderWeakFairSpec == SenderLiveSpec /\ \A t \in Threads : WF_vars(ThreadStep(t))

\* lock() is strongly fair: a lock() that could return again and again
\* does return.
StrongLockFairness == \A t \in Threads : SF_vars(lock(t))

----------------------------------------------------------------------------
\* Properties of the outbound side (checked under SenderSpec).

InSender(t) == pc[t] \in {"stamp", "head", "tail"}
Other(t) == IF t = "app" THEN "hb" ELSE "app"
Returned(c) == c.ret # <<"pending">>

\* C1: at most one of the application's send/join call and the keepalive
\* thread's heartbeat call is inside the Sender (incrementing the reference
\* counter or writing to the connection) at any time, and at most one guard
\* of sender_ref exists.
C1_MutualExclusion ==
    /\ Cardinality({t \in Threads : InSender(t)}) <= 1
    /\ Cardinality(holders) <= 1
    /\ \A t \in Threads : InSender(t) => t \in holders

\* The heartbeat is inside the Sender while the application waits for the lock.
C1_Witness == InSender("hb") /\ pc["app"] = "lock"

IsOkJoin(c) == c.op = "join" /\ c.ret[1] = "Ok"

\* C2: the references returned by successful join calls are pairwise distinct
\* and strictly increasing in call order, whatever send calls and heartbeat
\* ticks come between them.
C2_JoinRefsIncrease ==
    \A i, j \in 1..Len(calls) :
        (i < j /\ IsOkJoin(calls[i]) /\ IsOkJoin(calls[j]))
            => calls[i].ret[2] < calls[j].ret[2]

\* Two successful joins with a send and a heartbeat between them.
C2_Witness ==
    \E i, j, k, l \in 1..Len(calls) :
        /\ i < j /\ i < k /\ j < l /\ k < l
        /\ IsOkJoin(calls[i]) /\ IsOkJoin(calls[l])
        /\ calls[j].op = "send" /\ calls[j].wrote = "ok"
        /\ calls[k].op = "heartbeat" /\ calls[k].wrote = "ok"

\* Thread t has taken its reference and not yet finished its write.
StampedNotWritten(t) == pc[t] \in {"head", "tail"} /\ calls[cur[t]].ref # <<>>

\* The references of the chunks on the connection that carry one, in order.
RECURSIVE WireRefs(_)
WireRefs(w) ==
    IF w = <<>> THEN <<>>
    ELSE IF Head(w).part = "tail" /\ Head(w).ref # <<>>
         THEN <<Head(w).ref[1]>> \o WireRefs(Tail(w))
         ELSE WireRefs(Tail(w))

StrictlyIncreasing(q) == \A i, j \in 1..Len(q) : i < j => q[i] < q[j]

\* C3: between a call's counter increment and the end of its own write no
\* other call increments the counter or writes to the connection, and the
\* frames that carry a reference are on the connection in strictly increasing
\* reference order.
C3_StampAndWriteAtomic ==
    /\ [](StrictlyIncreasing(WireRefs(wire)))
    /\ [][\A t \in Threads : StampedNotWritten(t) =>
            /\ ref_counter' = ref_counter
            /\ wire' # wire =>
                 /\ Len(wire') = Len(wire) + 1
                 /\ wire'[Len(wire')].call = cur[t]]_vars

\* A call has its reference and is about to write while the other thread
\* waits for the lock, after an earlier frame with a reference was written.
C3_Witness ==
    /\ \E t \in Threads : StampedNotWritten(t) /\ pc[Other(t)] = "lock"
    /\ Len(WireRefs(wire)) >= 1

EventOf(o) ==
    CASE o = "send" -> "custom" [] o = "join" -> "phx_join"
      [] o = "heartbeat" -> "heartbeat"

\* Chunks i and i+1 of the connection are the complete envelope of one call,
\* with that call's topic, event and payload.
WholeFrame(i) ==
    LET h == wire[i]
        t == wire[i + 1]
        f == DecodeWire(h, t)
        c == calls[h.call]
    IN  /\ h.part = "head" /\ t.part = "tail"
        /\ h.call = t.call
        /\ f.topic = c.topic /\ f.event = EventOf(c.op) /\ f.payload = c.payload
        /\ f.ref = c.ref

\* C4: the connection carries whole envelopes only: every frame is the
\* complete envelope of exactly one call with the topic, event and payload of
\* that call; a frame is incomplete only while its writer is still writing it
\* or when its write failed or crashed, and then nothing follows it.
C4_NoPartialInterleaving ==
    /\ \A i \in 1..Len(wire) : (i % 2 = 1 /\ i < Len(wire)) => WholeFrame(i)
    /\ Len(wire) % 2 = 1 =>
         LET h == wire[Len(wire)] IN
         /\ h.part = "head"
         /\ \/ \E t \in Threads : pc[t] = "tail" /\ cur[t] = h.call
            \/ calls[h.call].wrote = "failed"
            \/ calls[h.call].ret = <<"crash">>
    /\ \A i, j \in 1..Len(wire) :
         (i < j /\ wire[i].part = "head" /\ wire[j].part = "head")
            => wire[i].call # wire[j].call

\* A heartbeat tick that began before a send call was overtaken by it (the two
\* calls competed for the Sender): both frames are on the connection, whole.
C4_Witness ==
    \E i \in 1..Len(wire) :
        /\ i + 3 <= Len(wire)
        /\ calls[wire[i].call].op = "send"
        /\ calls[wire[i + 2].call].op = "heartbeat"
        /\ calls[wire[i + 2].call].wrote = "ok"
        /\ wire[i + 2].call < wire[i].call

JoinWriteFailed(c) == c.op = "join" /\ c.wrote = "failed" /\ Returned(c)

\* C9: a Client::join call whose write fails returns ClientError::Join and no
\* reference; the guard is dropped when the call returns and the lock is not
\* poisoned by it, so the Sender can be acquired again.
C9_JoinWriteFailure ==
    /\ \A i \in 1..Len(calls) :
         JoinWriteFailed(calls[i]) => calls[i].ret = <<"ClientError::Join">>
    /\ \A t \in Threads : (cur[t] = 0 \/ pc[t] = "lock") => t \notin holders
    /\ poisoned => \E i \in 1..Len(calls) : calls[i].ret = <<"crash">>

\* A join failed with ClientError::Join; afterwards a send, a join and a
\* heartbeat each acquired the Sender.
C9_Witness ==
    \E i \in 1..Len(calls) :
        /\ JoinWriteFailed(calls[i])
        /\ \A o \in {"send", "join", "heartbeat"} :
             \E j \in 1..Len(calls) :
                 j > i /\ calls[j].op = o /\ calls[j].wrote # "none"

BestEffortFailed(c) ==
    c.op \in {"send", "heartbeat"} /\ c.wrote = "failed" /\ Returned(c)

\* C10: a Client::send call or a heartbeat tick whose write fails returns
\* normally: no error reaches the caller, the caller's thread goes on, and the
\* lock is not poisoned (only a crash inside the Sender poisons it, and only
\* a crash or a poisoned lock ends a thread).
C10_BestEffortSend ==
    /\ \A i \in 1..Len(calls) :
         BestEffortFailed(calls[i]) => calls[i].ret = <<"unit">>
    /\ poisoned => \E i \in 1..Len(calls) : calls[i].ret = <<"crash">>
    /\ \A t \in Threads : pc[t] = "panicked" =>
         \E i \in 1..Len(calls) :
             calls[i].by = t /\ calls[i].ret \in {<<"crash">>, <<"panic">>}
                             /\ calls[i].wrote # "failed"

\* A send and a heartbeat both failed to write and returned; both threads
\* went on to further calls and the lock is not poisoned.
C10_Witness ==
    /\ ~poisoned
    /\ \E i, j \in 1..Len(calls) :
         /\ BestEffortFailed(calls[i]) /\ calls[i].op = "send"
         /\ BestEffortFailed(calls[j]) /\ calls[j].op = "heartbeat"
         /\ cur["app"] > i /\ cur["hb"] > j

\* Thread t's lock() call returns in this step while the lock is poisoned.
LockReturnsPoisoned(t) == poisoned /\ pc[t] = "lock" /\ pc'[t] # "lock"

\* C11: when the Sender lock is poisoned, Client::join returns
\* ClientError::Thread, writes no frame and leaves the reference counter as
\* it is; the application goes on.
C11_JoinOnPoisonedLock ==
    /\ [](\A i \in 1..Len(calls) :
            (calls[i].op = "join" /\ calls[i].ret = <<"ClientError::Thread">>)
                => (calls[i].wrote = "none" /\ calls[i].ref = <<>>))
    /\ [][(LockReturnsPoisoned("app") /\ calls[cur["app"]].op = "join") =>
            /\ calls'[cur["app"]].ret = <<"ClientError::Thread">>
            /\ pc'["app"] = "idle"
            /\ wire' = wire
            /\ ref_counter' = ref_counter
            /\ holders' = holders]_vars

\* A join returned ClientError::Thread after an earlier join had got its
\* reference and its frame out.
C11_Witness ==
    \E i, j \in 1..Len(calls) :
        /\ i < j
        /\ IsOkJoin(calls[i]) /\ calls[i].wrote = "ok"
        /\ calls[j].op = "join" /\ calls[j].ret = <<"ClientError::Thread">>
        /\ pc["app"] = "idle"

\* C12: poisoning is sticky and fatal: a poisoned lock stays poisoned, nobody
\* holds the lock or is inside the Sender afterwards, every later lock() of
\* Client::send, Client::join and the keepalive loop ends in a panic or in
\* ClientError::Thread, and no frame is written and the reference counter
\* does not change after the poisoning.
C12_PoisonIsSticky ==
    /\ [](poisoned => (holders = {} /\ \A t \in Threads : ~InSender(t)))
    /\ [][poisoned =>
            /\ poisoned'
            /\ wire' = wire
            /\ ref_counter' = ref_counter
            /\ \A t \in Threads : LockReturnsPoisoned(t) =>
                 /\ calls'[cur[t]].ret \in {<<"panic">>, <<"ClientError::Thread">>}
                 /\ calls'[cur[t]].wrote = "none"]_vars

\* The heartbeat crashed inside the Sender; afterwards a join returned
\* ClientError::Thread and a send panicked.
C12_Witness ==
    /\ poisoned
    /\ \E i, j, k \in 1..Len(calls) :
         /\ i < j /\ j < k
         /\ calls[i].op = "heartbeat" /\ calls[i].ret = <<"crash">>
         /\ calls[j].op = "join" /\ calls[j].ret = <<"ClientError::Thread">>
         /\ calls[k].op = "send" /\ calls[k].ret = <<"panic">>

ByHeartbeatTask(chunk) == calls[chunk.call].by = "hb"

HeartbeatHeads(id) == {i \in 1..Len(wire) : wire[i].call = id /\ wire[i].part = "head"}

\* C18: the keepalive loop waits one period before each heartbeat, then takes
\* the lock, calls heartbeat() once and drops the guard before it sleeps
\* again: it holds no guard while it sleeps, writes at most one frame per
\* iteration and exactly one when the write succeeds, writes nothing before
\* its first period has elapsed, and ends only with a poisoned lock.
C18_KeepaliveLoop ==
    /\ [](pc["hb"] = "sleep" => ("hb" \notin holders /\ cur["hb"] = 0))
    /\ [](pc["hb"] = "panicked" => poisoned)
    /\ [](\A id \in 1..Len(calls) : calls[id].op = "heartbeat" =>
            /\ Cardinality(HeartbeatHeads(id)) <= 1
            /\ calls[id].wrote = "ok" => Cardinality(HeartbeatHeads(id)) = 1)
    /\ [][/\ (pc["hb"] = "sleep" /\ pc'["hb"] # "sleep") =>
               (pc'["hb"] = "lock" /\ wire' = wire /\ holders' = holders)
          /\ (pc["hb"] # "sleep" /\ pc'["hb"] = "sleep") =>
               (pc["hb"] = "ret" /\ calls'[cur["hb"]].ret = <<"unit">>)]_vars

\* The keepalive loop sleeps after two complete iterations while the
\* application is inside the Sender.
C18_Witness ==
    /\ pc["hb"] = "sleep"
    /\ InSender("app")
    /\ \E i, j \in 1..Len(calls) :
         /\ i < j
         /\ calls[i].op = "heartbeat" /\ calls[i].wrote = "ok" /\ Returned(calls[i])
         /\ calls[j].op = "heartbeat" /\ calls[j].wrote = "ok" /\ Returned(calls[j])

----------------------------------------------------------------------------
\* Properties of the inbound side (checked under DeliverySpec).

IsPrefix(p, q) == Len(p) <= Len(q) /\ \A i \in 1..Len(p) : p[i] = q[i]

\* What the application has read or can still read from the channel.
Readable == consumed \o chan

\* C5: while the application holds the channel, what it has read or can read
\* is a prefix of what the Receiver yielded, in the same order and without
\* loss or duplication: only the one item the delivery thread holds between
\* its pull and its publish is not yet in the channel.
C5_RepublishedInOrder ==
    rxOpen =>
        /\ IsPrefix(Readable, yielded)
        /\ Readable \o dlvItem = yielded
        /\ \A i \in 1..Len(yielded) : yielded[i].seq = i

\* The application has read an item, another is queued and a third is held by
\* the delivery thread; Ok and Err items are among them.
C5_Witness ==
    /\ rxOpen
    /\ Len(consumed) >= 1 /\ Len(chan) >= 1 /\ dlvItem # <<>>
    /\ \E i, j \in 1..Len(yielded) :
         yielded[i].kind = "Ok" /\ yielded[j].kind = "Err"

ReceiverEnded == inbound = <<>> /\ ~connOpen

\* C6: an Err item does not stop delivery: while the channel is open every
\* Err item the Receiver yielded is published like any other item, and the
\* delivery thread ends only because a publish failed on the closed channel
\* or because the Receiver's sequence ended, so a valid frame that arrives
\* after a malformed one is delivered as an Ok item.
C6_ErrDoesNotStopDelivery ==
    /\ rxOpen => \A i \in 1..Len(yielded) :
         yielded[i].kind = "Err" =>
             \/ i <= Len(Readable) /\ Readable[i] = yielded[i]
             \/ i = Len(yielded) /\ dlvItem = <<yielded[i]>>
    /\ dlvPc = "done" => (dlvResult = "Err" \/ ReceiverEnded)
    /\ (rxOpen /\ dlvPc = "next" /\ connOpen) => Readable = yielded

\* A malformed frame was delivered as Err and a valid frame that arrived
\* after it was delivered as Ok.
C6_Witness ==
    /\ rxOpen
    /\ \E i, j \in 1..Len(Readable) :
         i < j /\ Readable[i].kind = "Err" /\ Readable[j].kind = "Ok"

C8_NoPublishAfterFailure ==
    /\ [](dlvResult = "Err" => (dlvPc \in {"check", "done"} /\ dlvItem = <<>>))
    /\ [][dlvResult = "Err" =>
            /\ attempts' = attempts
            /\ yielded' = yielded
            /\ chan' = chan
            /\ dlvResult' = "Err"
            /\ dlvPc' \in {"check", "done"}]_vars

\* The delivery thread ended on a failed publish although a further frame is
\* waiting on the read half.
C8_Witness == dlvResult = "Err" /\ dlvPc = "done" /\ inbound # <<>>

\* The for loop ended because Receiver::next returned None.
EndedByClose == dlvPc = "done" /\ dlvResult # "Err"

\* C20: when the connection closes the delivery thread ends by itself, after
\* it has published every item the Receiver yielded; the producer end goes
\* with it, so a consumer that finds the channel disconnected (the thread has
\* ended and nothing is queued) has read every item; the ended thread never
\* pulls or publishes again.
C20_EndsAfterPublishingAll ==
    /\ [](EndedByClose =>
            /\ ~connOpen /\ inbound = <<>> /\ dlvItem = <<>>
            /\ rxOpen => Readable = yielded
            /\ (rxOpen /\ chan = <<>>) => consumed = yielded)
    /\ [][dlvPc = "done" =>
            (dlvPc' = "done" /\ yielded' = yielded /\ attempts' = attempts)]_vars
    /\ (~connOpen) ~> (dlvPc = "done")

\* The connection closed and the thread ended; of the items it published the
\* application has read one and another is still queued.
C20_Witness ==
    /\ EndedByClose /\ rxOpen
    /\ consumed # <<>> /\ chan # <<>>
    /\ Len(yielded) = MaxFrames

----------------------------------------------------------------------------
\* Properties of Client::new and connect (checked under NewSpec).

HeartbeatSpawned == pc["hb"] # "unspawned"
DeliverySpawned == dlvPc # "unspawned"
NewReturned == ctor.pc = "returned"

\* C13: the Client never exists in part: when connect fails, Client::new
\* returns ClientError::Connect with no heartbeat thread, no delivery thread
\* and no channel created; when Client::new has returned, both threads exist
\* exactly if it returned Ok; and nothing is created without a connection.
C13_NeverPartial ==
    /\ NewReturned =>
         /\ ctor.connected <=> ctor.result = <<"Ok">>
         /\ ~ctor.connected <=> ctor.result = <<"ClientError::Connect">>
         /\ (HeartbeatSpawned /\ DeliverySpawned) <=> ctor.result = <<"Ok">>
         /\ ctor.result = <<"ClientError::Connect">> =>
              (~HeartbeatSpawned /\ ~DeliverySpawned /\ ~rxOpen)
         /\ ctor.result = <<"Ok">> => (rxOpen /\ pc["app"] = "idle")
    /\ (HeartbeatSpawned \/ DeliverySpawned \/ rxOpen) => connOpen

\* connect failed and Client::new returned ClientError::Connect.
C13_Witness ==
    /\ NewReturned
    /\ ctor.result = <<"ClientError::Connect">>
    /\ ~HeartbeatSpawned /\ ~DeliverySpawned /\ ~rxOpen

\* The endpoint as the interface description gives it:
\* <base_url>/websocket?vsn=2.0.0 followed by &key=value for each pair.
RECURSIVE QueryOf(_)
QueryOf(params) ==
    IF params = <<>> THEN <<>>
    ELSE <<"&">> \o Head(params)[1] \o <<"=">> \o Head(params)[2] \o QueryOf(Tail(params))

Endpoint(url, params) ==
    url \o <<"/", "w", "e", "b", "s", "o", "c", "k", "e", "t", "?",
             "v", "s", "n", "=", "2", ".", "0", ".", "0">> \o QueryOf(params)

\* C17: the address connect hands to ClientBuilder::new is the base url, then
\* /websocket?vsn=2.0.0, then &key=value for every pair in the order given,
\* keys and values copied as they are.
C17_EndpointBuilt ==
    ctor.pc = "socket" => ctor.addr = Endpoint(ctor.url, ctor.input)

\* connect("wss://host", [("token", "abc")]) has built
\* wss://host/websocket?vsn=2.0.0&token=abc.
C17_Witness ==
    /\ ctor.pc = "socket"
    /\ ctor.url = <<"w", "s", "s", ":", "/", "/", "h", "o", "s", "t">>
    /\ ctor.input = << << <<"t", "o", "k", "e", "n">>, <<"a", "b", "c">> >> >>
    /\ ctor.addr = <<"w", "s", "s", ":", "/", "/", "h", "o", "s", "t",
                     "/", "w", "e", "b", "s", "o", "c", "k", "e", "t", "?",
                     "v", "s", "n", "=", "2", ".", "0", ".", "0",
                     "&", "t", "o", "k", "e", "n", "=", "a", "b", "c">>

----------------------------------------------------------------------------
\* Properties of join_threads (checked under LifeSpec).

\* C14: whenever join_threads has returned, with Ok or with Err, both the
\* keepalive thread and the delivery thread have already ended.
C14_ReturnsAfterBothEnded ==
    joiner.pc = "returned" => (Terminated("heartbeat_handle")
                               /\ Terminated("message_processor_handle"))

\* C15: two-step shutdown.  Once the connection is closed the next heartbeat
\* write fails, and that failed write ends the keepalive thread, so that a
\* join_threads blocked in heartbeat_handle.join() gets its answer: no
\* heartbeat whose write failed has returned to a keepalive loop that goes on.
C15_FailedHeartbeatEndsThread ==
    \A i \in 1..Len(calls) :
        (calls[i].op = "heartbeat" /\ calls[i].wrote = "failed" /\ Returned(calls[i]))
            => Terminated("heartbeat_handle")

----------------------------------------------------------------------------
\* Progress on the Sender.

InCall(t) == cur[t] # 0

\* C19 as stated: with lock acquisition weakly fair, writes that return and
\* no holder crashing, every Client::send and Client::join returns and every
\* tick of the keepalive loop gets its heartbeat() done.
C19_EveryCallReturnsWeak ==
    \A t \in Threads : InCall(t) ~> ~InCall(t)

\* C19 with lock acquisition strongly fair: every Client::send and
\* Client::join returns and every tick of the keepalive loop gets its
\* heartbeat() done.
C19_EveryCallReturns ==
    StrongLockFairness => \A t \in Threads : InCall(t) ~> ~InCall(t)

\* The application waits for the lock while the keepalive thread holds it.
C19_Witness ==
    /\ pc["app"] = "lock"
    /\ holders = {"hb"}
    /\ ~poisoned

====
